---- MODULE Spec2Model ----
(***************************************************************************)
(* Skanny: a command-line scanner front end over the SANE backend.         *)
(*                                                                         *)
(* The model follows src/src/main.rs: the backend is an opaque responder   *)
(* whose answers (status codes, option count, descriptors, parameters,     *)
(* bytes per read) are inputs of the actions; the wrappers Context,        *)
(* Handle, Opt and Acquisition and the driver main are translated from     *)
(* the source.  A panic (unwrap, assert, todo!, unimplemented!) unwinds:   *)
(* the values live at that point are dropped in reverse order of their     *)
(* declaration, and their Drop implementations make the backend calls.     *)
(***************************************************************************)
EXTENDS Integers, Sequences, FiniteSets, TLC

\* ------------------------------------------------------------------ bounds
MaxDevices == 2
MaxOptions == 3
MaxPixels == 2
MaxLines == 1
MaxReads == 3
MaxAcqs == 2
MaxStrSize == 3

\* --------------------------------------------------------------- constants
\* std::mem::size_of::<SANE_Int>()
IntSize == 4
\* the depth of the two supported sample layouts
Depth8 == 8

\* the statuses the backend answers with (a sample of SANE_Status)
Status == {"GOOD", "EOF", "IO_ERROR", "JAMMED"}
\* the statuses drawn for the option accesses of main, which unwraps them all
OptionStatus == {"GOOD", "IO_ERROR"}
Formats == {"GRAY", "RGB", "RED"}
Depths == {1, 8, 16}
\* the bytes per pixel of a scan line the backend reports
BytesPerPixel == {1, 3}
ValueTypes == {"INT", "FIXED", "STRING", "BOOL"}
ConstraintTypes == {"NONE", "RANGE", "WORD_LIST", "STRING_LIST"}
OptionNames == {"", "mode", "depth", "resolution", "test-picture", "other"}
Sizes == {IntSize, 2 * IntSize}

VARIABLES
    testdevice,   \* cliopts.testdevice
    dir,          \* cliopts.dir.is_some()
    caller,       \* "main": the program; "api": any caller of the wrappers
    pc,           \* position of the caller
    context,      \* a Context value is alive
    handle,       \* "none", "open" (a Handle value is alive), "closed"
    acqs,         \* number of Acquisition values alive
    startStatus,  \* status of the last sane_start
    obs,          \* what the backend has seen so far
    numDesc,      \* num_desc of Handle::descriptors (value of option 0)
    rangeNext,    \* next item of the range 1..num_desc
    enumNext,     \* next count of enumerate()
    yielded,      \* the Opts Handle::options has yielded: <<index, descriptor>>
    params,       \* parameters of get_image
    bytesize,     \* bytesize of get_image (length of the image vector)
    remaining,    \* buffer.len() in read_image
    sumRead,      \* sum of the len values the backend returned in this read_image
    reads,        \* number of sane_read calls of this read_image
    lastRead,     \* answer of the last sane_read
    offered,      \* pointer (offset in the image vector) and max_len of it
    readImage,    \* outcome of read_image
    result,       \* outcome of get_image
    image,        \* the Image get_image returned
    optD,         \* the descriptor of an Opt whose accessors are called
    optCall,      \* the last accessor call on that Opt and what it gave
    version,      \* the version code sane_init gave
    versionOut,   \* what Version::major, minor and build return for it
    devIn,        \* the answer of sane_get_devices: status and device list
    devOut        \* what Context::devices returns for it

vars == <<testdevice, dir, caller, pc, context, handle, acqs, startStatus, obs,
          numDesc, rangeNext, enumNext, yielded, params, bytesize, remaining,
          sumRead, reads, lastRead, offered, readImage, result, image, optD,
          optCall,
          version, versionOut, devIn, devOut>>

optVars == <<numDesc, rangeNext, enumNext, yielded>>
acqVars == <<params, bytesize, remaining, sumRead, reads, lastRead, offered,
             readImage, result, image>>
cliVars == <<testdevice, dir, caller>>
unitVars == <<optD, optCall, version, versionOut, devIn, devOut>>
progVars == <<pc, context, handle, acqs, startStatus, obs>>

\* ----------------------------------------------------------------- backend
\* no parameters
NoParams ==
    [format |-> "NONE", depth |-> 0, pixels_per_line |-> 0, lines |-> 0,
     bytes_per_line |-> 0]

\* The backend as seen from its call surface.
\* geometry: what sane_get_parameters answered since the last sane_start;
\* readSinceStart: a sane_read was made since the last sane_start;
\* staleRead: a sane_read was made with no parameters query since the last
\* sane_start; lateQuery: a parameters query came after a read of the scan
ObsInit ==
    [inited |-> FALSE, exits |-> 0, exitNoInit |-> FALSE, afterExit |-> FALSE,
     opens |-> 0, closes |-> 0, afterClose |-> FALSE, closedActive |-> FALSE,
     active |-> 0, started |-> FALSE, cancelled |-> FALSE,
     geometry |-> NoParams, readSinceStart |-> FALSE, staleRead |-> FALSE,
     lateQuery |-> FALSE]

\* any backend call: one made after sane_exit is recorded
Touch(o) == [o EXCEPT !.afterExit = @ \/ o.exits > 0]

\* a call that takes the SANE_Handle: one made after sane_close is recorded
OnHandle(o) == [Touch(o) EXCEPT !.afterClose = @ \/ o.closes > 0]

SaneInit(o, st) == [Touch(o) EXCEPT !.inited = @ \/ st = "GOOD"]

SaneExit(o) ==
    [Touch(o) EXCEPT !.exits = @ + 1, !.exitNoInit = @ \/ ~o.inited]

SaneGetDevices(o) == Touch(o)

SaneOpen(o, st) == [Touch(o) EXCEPT !.opens = IF st = "GOOD" THEN @ + 1 ELSE @]

SaneClose(o) ==
    [OnHandle(o) EXCEPT !.closes = @ + 1,
                        !.closedActive = @ \/ o.started]

SaneGetOptionDescriptor(o) == OnHandle(o)

SaneControlOption(o) == OnHandle(o)

SaneGetParameters(o, st, p) ==
    [OnHandle(o) EXCEPT !.geometry = IF st = "GOOD" THEN p ELSE @,
                        !.lateQuery = @ \/ o.readSinceStart]

SaneStart(o, st) ==
    [OnHandle(o) EXCEPT !.active = IF st = "GOOD" THEN @ + 1 ELSE @,
                        !.started = TRUE,
                        !.geometry = NoParams,
                        !.readSinceStart = FALSE]

SaneRead(o) ==
    [OnHandle(o) EXCEPT !.readSinceStart = TRUE,
                        !.staleRead = @ \/ o.geometry = NoParams]

SaneCancel(o) ==
    [OnHandle(o) EXCEPT !.active = 0, !.started = FALSE, !.cancelled = TRUE]

\* ------------------------------------------------------------------ errors
Ok == [kind |-> "Ok", status |-> "GOOD"]
Err(st) == [kind |-> "Err", status |-> st]
WrongType == [kind |-> "Err", status |-> "WrongType"]
Panic == [kind |-> "Panic", status |-> "GOOD"]
NoResult == [kind |-> "None", status |-> "GOOD"]

checked(st) == IF st # "GOOD" THEN Err(st) ELSE Ok

\* faulty variant: every error status is taken for EOF
is_eof_any(e) == e.kind = "Err"

is_eof(e) == e = Err("EOF")

\* ------------------------------------------------------------------- drops
\* impl Drop for Context
DropContext(o) == SaneExit(o)

\* faulty variant: the handle is closed twice
DropHandleTwice(o) == SaneClose(SaneClose(o))

\* impl Drop for Handle
DropHandle(o) == SaneClose(o)

\* faulty variant: the drop makes no backend call
DropAcquisitionForgotten(o) == o

\* impl Drop for Acquisition
DropAcquisition(o) == SaneCancel(o)

\* faulty variant: context declared after handle, so dropped before it
DropLocalsContextFirst(o, h, c) ==
    LET o1 == IF c THEN DropContext(o) ELSE o
    IN  IF h = "open" THEN DropHandle(o1) ELSE o1

\* the locals of main go out of scope (at its end or by a panic): handle was
\* declared after context and is dropped first
DropLocals(o, h, c) ==
    LET o1 == IF h = "open" THEN DropHandle(o) ELSE o
    IN  IF c THEN DropContext(o1) ELSE o1

\* main ends, normally or by a panic
LeaveMain(o) ==
    /\ obs' = DropLocals(o, handle, context)
    /\ handle' = IF handle = "open" THEN "closed" ELSE handle
    /\ context' = FALSE
    /\ pc' = "done"

\* -------------------------------------------------------------------- Init
NoRead == [status |-> "NONE", len |-> 0]
NoOffer == [ptr |-> 0, max_len |-> 0]
NoImage == [kind |-> "None", width |-> 0, height |-> 0, len |-> 0]

InitOptions ==
    /\ numDesc = 0
    /\ rangeNext = 0
    /\ enumNext = 0
    /\ yielded = <<>>

InitAcquisition ==
    /\ params = NoParams
    /\ bytesize = 0
    /\ remaining = 0
    /\ sumRead = 0
    /\ reads = 0
    /\ lastRead = NoRead
    /\ offered = NoOffer
    /\ readImage = "none"
    /\ result = NoResult
    /\ image = NoImage

NoOpt ==
    [ptr |-> 0, name |-> "", type |-> "NONE", size |-> 0, constraint |-> "NONE"]
NoCall == [fn |-> "none"]
NoVersion == [major |-> 0, minor |-> 0, build |-> 0, called |-> {}]
NoDevIn == [status |-> "NONE", list |-> <<>>]
NoDevOut == [res |-> NoResult, items |-> <<>>]

\* no accessor, Version or devices call is looked at
InitUnits ==
    /\ optD = NoOpt
    /\ optCall = NoCall
    /\ version = 0
    /\ versionOut = NoVersion
    /\ devIn = NoDevIn
    /\ devOut = NoDevOut

Init ==
    /\ testdevice \in BOOLEAN
    /\ dir \in BOOLEAN
    /\ caller = "main"
    /\ pc = "init"
    /\ context = FALSE
    /\ handle = "none"
    /\ acqs = 0
    /\ startStatus = "NONE"
    /\ obs = ObsInit
    /\ InitOptions
    /\ InitAcquisition
    /\ InitUnits

\* ------------------------------------------------------------ Context, open
\* main: Context::init().unwrap()
ContextInit ==
    /\ pc = "init"
    /\ \E st \in Status :
        LET o == SaneInit(obs, st)
        IN  IF checked(st) = Ok
            THEN /\ context' = TRUE
                 /\ obs' = o
                 /\ pc' = "open"
                 /\ UNCHANGED handle
            ELSE LeaveMain(o)
    /\ UNCHANGED <<cliVars, unitVars, acqs, startStatus, optVars, acqVars>>

\* main: the handle, from the name "test" or from the last device listed
OpenHandle ==
    /\ pc = "open"
    /\ \E stDev \in Status, n \in 0..MaxDevices, st \in Status :
        LET o0 == IF testdevice THEN obs ELSE SaneGetDevices(obs)
            listed == testdevice \/ (checked(stDev) = Ok /\ n > 0)
            o1 == IF listed THEN SaneOpen(o0, st) ELSE o0
        IN  IF listed /\ checked(st) = Ok
            THEN /\ handle' = "open"
                 /\ obs' = o1
                 /\ pc' = "descriptors"
                 /\ UNCHANGED context
            ELSE LeaveMain(o1)
    /\ UNCHANGED <<cliVars, unitVars, acqs, startStatus, optVars, acqVars>>

\* ----------------------------------------------------------------- options
\* Opt accessors: the result, and whether sane_control_option was called
Acc(r, c) == [res |-> r, called |-> c]

get_string(d, st) ==
    IF d.type # "STRING" THEN Acc(WrongType, FALSE) ELSE Acc(checked(st), TRUE)

set_string(d, st) ==
    IF d.type # "STRING" THEN Acc(Panic, FALSE) ELSE Acc(checked(st), TRUE)

get_int(d, st) ==
    IF ~(d.type = "INT" \/ d.type = "FIXED") THEN Acc(Panic, FALSE)
    ELSE IF d.size # IntSize THEN Acc(Panic, FALSE)
    ELSE Acc(checked(st), TRUE)

set_int(d, st) ==
    IF ~(d.type = "INT" \/ d.type = "FIXED") THEN Acc(Panic, FALSE)
    ELSE IF d.size # IntSize THEN Acc(Panic, FALSE)
    ELSE Acc(checked(st), TRUE)

\* faulty variant: the constraint type is not looked at
get_range_unchecked(d) == Acc(Ok, FALSE)

get_range(d) ==
    IF d.constraint = "RANGE" THEN Acc(Ok, FALSE) ELSE Acc(WrongType, FALSE)

string_constraints(d) ==
    IF d.constraint = "STRING_LIST" THEN Acc(Ok, FALSE) ELSE Acc(Panic, FALSE)

int_constraints(d) ==
    IF d.constraint = "WORD_LIST" THEN Acc(Ok, FALSE) ELSE Acc(Panic, FALSE)

\* a Result that main does not look at: only a panic gets through
Ignored(a) == IF a.res.kind = "Err" THEN Acc(Ok, a.called) ELSE a

\* the accesses main makes on one option, in order, each one unwrapped
OptionAccesses(d, sts) ==
    IF d.name = "mode" THEN
        (IF testdevice THEN <<>> ELSE <<set_string(d, sts[1])>>)
        \o <<get_string(d, sts[2]), string_constraints(d), set_string(d, sts[3])>>
    ELSE IF d.name = "depth" THEN <<get_int(d, sts[1])>>
    ELSE IF d.name = "resolution" THEN
        IF get_range(d).res.kind = "Ok"
        THEN <<get_int(d, sts[1])>>
        ELSE <<set_int(d, sts[1]), get_int(d, sts[2]), int_constraints(d)>>
    ELSE IF d.name = "test-picture" THEN <<Ignored(set_string(d, sts[1]))>>
    ELSE <<>>

\* unwrap of each access in turn: the first that is not Ok panics
FirstFailure(steps) ==
    LET bad == {k \in 1..Len(steps) : steps[k].res.kind # "Ok"}
    IN  IF bad = {} THEN 0 ELSE CHOOSE k \in bad : \A j \in bad : k <= j

OptionBody(d, sts) ==
    LET steps == OptionAccesses(d, sts)
        f == FirstFailure(steps)
        made == IF f = 0 THEN 1..Len(steps) ELSE 1..f
    IN  [panic |-> f # 0, called |-> \E k \in made : steps[k].called]

\* the descriptors the backend can answer with for index i; ptr stands for the
\* pointer sane_get_option_descriptor returns, "null" for a null pointer
BackendDescriptors(i) ==
    [ptr : {i}, name : OptionNames, type : ValueTypes, size : Sizes,
     constraint : ConstraintTypes]

\* Handle::get_descriptor
get_descriptor(d, isNull) ==
    IF isNull THEN [some |-> FALSE, desc |-> d] ELSE [some |-> TRUE, desc |-> d]

\* faulty variant: the first descriptor is not skipped
OptIndexNoSkip(count) == count

\* Handle::options: the index given to the item enumerate() counted as count
OptIndex(count) == count + 1

\* Handle::descriptors, up to the lazy map: descriptor 0, its checks, num_desc
Descriptors ==
    /\ pc = "descriptors"
    /\ \E isNull \in BOOLEAN, d0 \in BackendDescriptors(0), st \in Status,
          n \in 1..MaxOptions :
        LET first_desc == get_descriptor(d0, isNull)
            o0 == SaneGetOptionDescriptor(obs)
            checks == /\ first_desc.some
                      /\ d0.type = "INT"
                      /\ d0.size = IntSize
            o1 == IF checks THEN SaneControlOption(o0) ELSE o0
        IN  IF checks /\ checked(st) = Ok
            THEN /\ numDesc' = n
                 /\ rangeNext' = 1
                 /\ enumNext' = 0
                 /\ yielded' = <<>>
                 /\ obs' = o1
                 /\ pc' = "options"
                 /\ UNCHANGED <<handle, context>>
            ELSE /\ LeaveMain(o1)
                 /\ UNCHANGED optVars
    /\ UNCHANGED <<cliVars, unitVars, acqs, startStatus, acqVars>>

\* main: one turn of `for option in handle.options()`: the iterator yields the
\* next Opt and the body runs on it
OptionNext ==
    /\ pc = "options"
    /\ rangeNext < numDesc
    /\ \E isNull \in BOOLEAN, d \in BackendDescriptors(rangeNext),
          sts \in [1..3 -> OptionStatus] :
        LET desc == get_descriptor(d, isNull)
            o0 == SaneGetOptionDescriptor(obs)
            option == <<OptIndex(enumNext), desc.desc.ptr>>
            body == IF d.name = "" THEN [panic |-> FALSE, called |-> FALSE]
                    ELSE OptionBody(d, sts)
            o1 == IF body.called THEN SaneControlOption(o0) ELSE o0
        IN  IF ~desc.some
            THEN /\ LeaveMain(o0)
                 /\ UNCHANGED optVars
            ELSE /\ rangeNext' = rangeNext + 1
                 /\ enumNext' = enumNext + 1
                 /\ yielded' = Append(yielded, option)
                 /\ UNCHANGED numDesc
                 /\ IF body.panic
                    THEN LeaveMain(o1)
                    ELSE /\ obs' = o1
                         /\ UNCHANGED <<pc, handle, context>>
    /\ UNCHANGED <<cliVars, unitVars, acqs, startStatus, acqVars>>

\* main: the iterator is exhausted and dropped; with --dir the directory is
\* created
OptionsEnd ==
    /\ pc = "options"
    /\ ~(rangeNext < numDesc)
    /\ \E created \in BOOLEAN :
        IF dir /\ ~created
        THEN LeaveMain(obs)
        ELSE /\ pc' = "start"
             /\ UNCHANGED <<obs, handle, context>>
    /\ numDesc' = 0
    /\ rangeNext' = 0
    /\ enumNext' = 0
    /\ yielded' = <<>>
    /\ UNCHANGED <<cliVars, unitVars, acqs, startStatus, acqVars>>

\* ------------------------------------------------------------- Acquisition
\* Handle::start: the Result of checked(sane_start) is dropped
start(st) ==
    LET e == checked(st)
    IN  Ok

\* nothing of an earlier get_image is left when an acquisition is started
ResetAcquisition ==
    /\ params' = NoParams
    /\ bytesize' = 0
    /\ remaining' = 0
    /\ sumRead' = 0
    /\ reads' = 0
    /\ lastRead' = NoRead
    /\ offered' = NoOffer
    /\ readImage' = "none"
    /\ result' = NoResult
    /\ image' = NoImage

\* main: handle.start().unwrap()
MainStart ==
    /\ pc = "start"
    /\ \E st \in Status :
        LET o == SaneStart(obs, st)
        IN  /\ startStatus' = st
            /\ IF start(st) = Ok
               THEN /\ acqs' = acqs + 1
                    /\ obs' = o
                    /\ pc' = "get_image"
                    /\ UNCHANGED <<handle, context>>
               ELSE /\ LeaveMain(o)
                    /\ UNCHANGED acqs
    /\ ResetAcquisition
    /\ UNCHANGED <<cliVars, unitVars, optVars>>

ParamSpace ==
    {[format |-> f, depth |-> d, pixels_per_line |-> w, lines |-> h,
      bytes_per_line |-> w * b] :
        f \in Formats, d \in Depths, w \in 1..MaxPixels, h \in 1..MaxLines,
        b \in BytesPerPixel}

\* get_image: the number of channels the byte size is computed with
Channels(p) == IF p.format = "GRAY" THEN 1 ELSE 3

\* faulty variant: the depth is left out
BytesizeIgnoringDepth(p) == p.pixels_per_line * p.lines * Channels(p)

\* get_image: bytesize
Bytesize(p) ==
    p.pixels_per_line * (p.depth \div Depth8) * p.lines * Channels(p)

\* faulty variant: the depth is not looked at
AssembleAnyDepth(p, len) ==
    IF p.format = "GRAY"
    THEN [kind |-> "Gray8", width |-> p.pixels_per_line, height |-> p.lines,
          len |-> len]
    ELSE IF p.format = "RGB"
    THEN [kind |-> "Rgb8", width |-> p.pixels_per_line, height |-> p.lines,
          len |-> len]
    ELSE NoImage

\* get_image: the image built from the bytes read
Assemble(p, len) ==
    IF p.format = "GRAY" /\ p.depth = Depth8
    THEN [kind |-> "Gray8", width |-> p.pixels_per_line, height |-> p.lines,
          len |-> len]
    ELSE IF p.format = "RGB" /\ p.depth = Depth8
    THEN [kind |-> "Rgb8", width |-> p.pixels_per_line, height |-> p.lines,
          len |-> len]
    ELSE NoImage

\* get_image returns, or is unwound by a panic: self is dropped
EndGetImage(o, res, img) ==
    /\ result' = res
    /\ image' = img
    /\ obs' = DropAcquisition(o)
    /\ acqs' = acqs - 1
    /\ pc' = "returned"

\* faulty variant: the geometry known before the scan is returned, whatever
\* the backend answers
parameters_estimated(st, answered) ==
    IF checked(st) # Ok THEN [res |-> checked(st), val |-> NoParams]
    ELSE [res |-> Ok,
          val |-> [format |-> "GRAY", depth |-> Depth8, pixels_per_line |-> 1,
                   lines |-> 1, bytes_per_line |-> 1]]

\* Handle::parameters, the backend answering st and writing answered
parameters(st, answered) ==
    IF checked(st) # Ok THEN [res |-> checked(st), val |-> NoParams]
    ELSE [res |-> Ok, val |-> answered]

\* get_image, up to the call of read_image
GetImageParameters ==
    /\ pc = "get_image"
    /\ \E st \in Status, answered \in ParamSpace :
        LET o == SaneGetParameters(obs, st, answered)
            q == parameters(st, answered)
            p == q.val
        IN  IF q.res # Ok
            THEN /\ EndGetImage(o, q.res, NoImage)
                 /\ UNCHANGED <<params, bytesize, remaining, readImage>>
            ELSE /\ params' = p
                 /\ bytesize' = Bytesize(p)
                 /\ IF p.format \in {"GRAY", "RGB"}
                    THEN /\ remaining' = Bytesize(p)
                         /\ readImage' = "running"
                         /\ obs' = o
                         /\ pc' = "read"
                         /\ UNCHANGED <<acqs, result, image>>
                    ELSE /\ EndGetImage(o, Panic, NoImage)
                         /\ UNCHANGED <<remaining, readImage>>
    /\ UNCHANGED <<cliVars, unitVars, context, handle, startStatus, optVars, sumRead,
                   reads, lastRead, offered>>

\* faulty variant: the slice is not moved on
AdvanceNot(rem, len) == rem

\* read_image: buffer.len() after `buffer = &mut buffer[len..]`
Advance(rem, len) == rem - len

\* read_image: buffer.as_mut_ptr(), as an offset in the image vector: the
\* slice begins len bytes behind the place the last read was given
as_mut_ptr(last, lastLen) == last.ptr + lastLen

\* faulty variant: the assert is missing
BufferFilledUnchecked(rem) == TRUE

\* read_image: the assert after the loop
BufferFilled(rem) == rem = 0

\* read_image: what the loop does with the Result e of a read
\* faulty variant: an empty read is taken for the end of the data
LoopExitOnEmpty(e, len) ==
    IF e = Ok THEN (IF len = 0 THEN "break" ELSE "continue")
    ELSE IF is_eof(e) THEN "break"
    ELSE "return"

\* (len is not looked at)
LoopExit(e, len) ==
    IF e = Ok THEN "continue"
    ELSE IF is_eof(e) THEN "break"
    ELSE "return"

\* read_image: one turn of 'read_loop, and what follows when the loop ends
ReadStep ==
    /\ pc = "read"
    /\ reads < MaxReads
    /\ \E st \in Status, len \in 0..remaining :
        LET o == SaneRead(obs)
            e == checked(st)
            rem == Advance(remaining, len)
        IN  /\ lastRead' = [status |-> st, len |-> len]
            /\ offered' = [ptr |-> as_mut_ptr(offered, lastRead.len),
                           max_len |-> remaining]
            /\ sumRead' = sumRead + len
            /\ reads' = reads + 1
            /\ remaining' = rem
            /\ IF LoopExit(e, len) = "continue"
               THEN /\ obs' = o
                    /\ UNCHANGED <<pc, acqs, readImage, result, image>>
               ELSE IF LoopExit(e, len) = "break"
               THEN IF BufferFilled(rem)
                    THEN LET img == Assemble(params, bytesize)
                         IN  /\ readImage' = "Ok"
                             /\ EndGetImage(o, IF img = NoImage THEN Panic ELSE Ok,
                                            img)
                    ELSE /\ readImage' = "Panic"
                         /\ EndGetImage(o, Panic, NoImage)
               ELSE /\ readImage' = "Err"
                    /\ EndGetImage(o, e, NoImage)
    /\ UNCHANGED <<cliVars, unitVars, context, handle, startStatus, optVars, params,
                   bytesize>>

\* main: get_image().unwrap()
MainUnwrapImage ==
    /\ pc = "returned"
    /\ caller = "main"
    /\ IF result.kind = "Ok"
       THEN /\ pc' = "save"
            /\ UNCHANGED <<obs, handle, context>>
       ELSE LeaveMain(obs)
    /\ UNCHANGED <<cliVars, unitVars, acqs, startStatus, optVars, acqVars>>

\* main: the image is saved; with --dir the loop goes on, otherwise main ends
SaveImage ==
    /\ pc = "save"
    /\ \E exists \in BOOLEAN, saved \in BOOLEAN :
        IF dir
        THEN IF exists \/ ~saved
             THEN LeaveMain(obs)
             ELSE /\ pc' = "start"
                  /\ UNCHANGED <<obs, handle, context>>
        ELSE LeaveMain(obs)
    /\ UNCHANGED <<cliVars, unitVars, acqs, startStatus, optVars, acqVars>>

\* ------------------------------------------------- any caller of the wrappers
\* A caller that holds a Context and an open Handle and calls the operations
\* of Handle and Acquisition in any order the borrow checker accepts:
\* Handle::start takes &self, so it can be called while Acquisitions are alive.
InitApi ==
    /\ testdevice = FALSE
    /\ dir = FALSE
    /\ caller = "api"
    /\ pc = "idle"
    /\ context = TRUE
    /\ handle = "open"
    /\ acqs = 0
    /\ startStatus = "NONE"
    /\ obs = SaneOpen(SaneInit(ObsInit, "GOOD"), "GOOD")
    /\ InitOptions
    /\ InitAcquisition
    /\ InitUnits

\* handle.start()
ApiStart ==
    /\ pc = "idle"
    /\ handle = "open"
    /\ acqs < MaxAcqs
    /\ \E st \in Status :
        /\ startStatus' = st
        /\ obs' = SaneStart(obs, st)
        /\ acqs' = IF start(st) = Ok THEN acqs + 1 ELSE acqs
    /\ UNCHANGED <<cliVars, unitVars, pc, context, handle, optVars, acqVars>>

\* Acquisition::restart: the Acquisition that Handle::start returns is
\* forgotten, so it is never dropped
ApiRestart ==
    /\ pc = "idle"
    /\ acqs > 0
    /\ obs.active <= MaxAcqs
    /\ \E st \in Status :
        /\ startStatus' = st
        /\ obs' = SaneStart(obs, st)
    /\ UNCHANGED <<cliVars, unitVars, pc, context, handle, acqs, optVars, acqVars>>

\* Acquisition::cancel: self is dropped
ApiCancel ==
    /\ pc = "idle"
    /\ acqs > 0
    /\ obs' = DropAcquisition(obs)
    /\ acqs' = acqs - 1
    /\ UNCHANGED <<cliVars, unitVars, pc, context, handle, startStatus, optVars, acqVars>>

\* acq.get_image() is called
ApiGetImage ==
    /\ pc = "idle"
    /\ acqs > 0
    /\ pc' = "get_image"
    /\ ResetAcquisition
    /\ UNCHANGED <<cliVars, unitVars, context, handle, acqs, startStatus, obs, optVars>>

\* the values of the caller go out of scope: the Acquisitions, then the
\* Handle they borrow, then the Context
LeaveCaller(o) ==
    /\ obs' = DropLocals(IF acqs > 0 THEN DropAcquisition(o) ELSE o, handle,
                         context)
    /\ acqs' = 0
    /\ handle' = IF handle = "open" THEN "closed" ELSE handle
    /\ context' = FALSE
    /\ pc' = "done"

\* get_image has returned to the caller; a panic goes on unwinding it
ApiReturn ==
    /\ pc = "returned"
    /\ caller = "api"
    /\ IF result.kind = "Panic"
       THEN LeaveCaller(obs)
       ELSE /\ pc' = "idle"
            /\ UNCHANGED <<obs, acqs, handle, context>>
    /\ UNCHANGED <<cliVars, unitVars, startStatus, optVars, acqVars>>

\* the caller ends
ApiLeave ==
    /\ pc = "idle"
    /\ LeaveCaller(obs)
    /\ UNCHANGED <<cliVars, unitVars, startStatus, optVars, acqVars>>

\* ------------------------------------------------------- Opt, call by call
\* The accessors of one Opt, each called on its own with the answers of the
\* backend as inputs.

\* the program around such a call: init has succeeded; h is the handle
ProgramAt(h) ==
    /\ testdevice = FALSE
    /\ dir = FALSE
    /\ caller = "api"
    /\ pc = "unit"
    /\ context = TRUE
    /\ handle = h
    /\ acqs = 0
    /\ startStatus = "NONE"
    /\ obs = IF h = "open"
             THEN SaneOpen(SaneInit(ObsInit, "GOOD"), "GOOD")
             ELSE SaneInit(ObsInit, "GOOD")
    /\ InitOptions
    /\ InitAcquisition

\* bytes of a string value: NUL, two letters, and a byte no UTF-8 text holds
Bytes == {0, 97, 98, 255}
TextBytes == {97, 98}
\* SANE_INFO_* flags a write can report
InfoFlags == {"RELOAD_OPTIONS", "RELOAD_PARAMS"}
Words == {75, 300}

NullRange == [min |-> 0, max |-> 0, quant |-> 0]
Ranges == {[min |-> 50, max |-> 600, quant |-> 50],
           [min |-> 0, max |-> 100, quant |-> 0]}
\* length-prefixed word lists
WordLists == {<<0>>, <<2, 75, 300>>}
\* null-terminated string lists
StringLists == {<<"null">>, <<"Gray", "Color", "null">>}

\* the constraint union of a descriptor, by the view that was written
Payloads(kind) ==
    IF kind = "RANGE"
    THEN {[range |-> r, word_list |-> <<0>>, string_list |-> <<"null">>] :
            r \in Ranges}
    ELSE IF kind = "WORD_LIST"
    THEN {[range |-> NullRange, word_list |-> w, string_list |-> <<"null">>] :
            w \in WordLists}
    ELSE IF kind = "STRING_LIST"
    THEN {[range |-> NullRange, word_list |-> <<0>>, string_list |-> l] :
            l \in StringLists}
    ELSE {[range |-> NullRange, word_list |-> <<0>>, string_list |-> <<"null">>]}

\* the sizes a descriptor of type t declares
SizesOf(t) == IF t = "STRING" THEN 1..MaxStrSize ELSE Sizes

\* the descriptors an Opt can wrap
OptDescriptors ==
    UNION {UNION {{[ptr |-> 1, name |-> "other", type |-> t, size |-> z,
                    constraint |-> k, payload |-> c] :
                      z \in SizesOf(t), c \in Payloads(k)} :
                  k \in ConstraintTypes} :
           t \in ValueTypes}

\* what an accessor call gave its caller, and what it did on the way:
\* called: sane_control_option calls made; sent: bytes handed to the backend;
\* payloadRead: the constraint union was read; info: flags returned to the
\* caller; backendInfo: flags the backend reported for the write
CallRec(fn, arg, res, value, called, sent, payloadRead, info, backendInfo) ==
    [fn |-> fn, arg |-> arg, res |-> res, value |-> value, called |-> called,
     sent |-> sent, payloadRead |-> payloadRead, info |-> info,
     backendInfo |-> backendInfo]

\* get_string: position of the first zero byte, or the length (0-based)
FirstZero(val) ==
    LET zeros == {k \in 1..Len(val) : val[k] = 0}
    IN  IF zeros = {} THEN Len(val)
        ELSE (CHOOSE k \in zeros : \A j \in zeros : k <= j) - 1

\* get_string: val.resize(first_zero, 0)
Truncated(val) == SubSeq(val, 1, FirstZero(val))

\* String::from_utf8 succeeds
ValidUtf8(val) == \A k \in 1..Len(val) : val[k] # 255

\* opt.get_string(), the backend answering st and writing wrote into val
\* (kept as arg of the call)
GetStringCall(d, st, wrote) ==
    LET a == get_string(d, st)
        val == Truncated(wrote)
    IN  IF a.res # Ok
        THEN CallRec("get_string", wrote, a.res, <<>>, a.called, <<>>, FALSE,
                     {}, {})
        ELSE IF ~ValidUtf8(val)
        THEN CallRec("get_string", wrote, Panic, <<>>, a.called, <<>>, FALSE,
                     {}, {})
        ELSE CallRec("get_string", wrote, Ok, val, a.called, <<>>, FALSE, {}, {})

\* opt.set_string(v): the bytes of v and a NUL are handed to the backend,
\* info is written by the backend and not returned
SetStringCall(d, v, st, binfo) ==
    LET a == set_string(d, st)
        val == Append(v, 0)
    IN  CallRec("set_string", v, a.res, <<>>, a.called,
                IF a.called THEN val ELSE <<>>, FALSE, {},
                IF a.called /\ st = "GOOD" THEN binfo ELSE {})

\* opt.get_int(), the backend answering st and writing word
GetIntCall(d, st, word) ==
    LET a == get_int(d, st)
    IN  CallRec("get_int", <<>>, a.res, IF a.res = Ok THEN word ELSE 0,
                a.called, <<>>, FALSE, {}, {})

\* opt.set_int(v): the info pointer handed to the backend is null
SetIntCall(d, v, st, binfo) ==
    LET a == set_int(d, st)
    IN  CallRec("set_int", v, a.res, 0, a.called, <<>>, FALSE, {},
                IF a.called /\ st = "GOOD" THEN binfo ELSE {})

\* get_range: *(*self.descriptor.0).constraint.range
RangeValue(d) == d.payload.range

\* opt.get_range()
GetRangeCall(d) ==
    LET a == get_range(d)
    IN  IF a.res = Ok
        THEN CallRec("get_range", <<>>, Ok, RangeValue(d), a.called, <<>>, TRUE,
                     {}, {})
        ELSE CallRec("get_range", <<>>, a.res, NullRange, a.called, <<>>,
                     FALSE, {}, {})

\* string_constraints: the walker counts the entries up to the null one
RECURSIVE WalkLen(_, _)
WalkLen(list, len) ==
    IF list[len + 1] = "null" THEN len ELSE WalkLen(list, len + 1)

\* opt.string_constraints()
StringConstraintsCall(d) ==
    LET a == string_constraints(d)
    IN  IF a.res = Ok
        THEN CallRec("string_constraints", <<>>, Ok,
                     SubSeq(d.payload.string_list, 1,
                            WalkLen(d.payload.string_list, 0)),
                     a.called, <<>>, TRUE, {}, {})
        ELSE CallRec("string_constraints", <<>>, a.res, <<>>, a.called, <<>>,
                     FALSE, {}, {})

\* opt.int_constraints(): &list[1..] of the len + 1 words
IntConstraintsCall(d) ==
    LET a == int_constraints(d)
        list == d.payload.word_list
    IN  IF a.res = Ok
        THEN CallRec("int_constraints", <<>>, Ok,
                     SubSeq(list, 2, list[1] + 1), a.called, <<>>, TRUE, {}, {})
        ELSE CallRec("int_constraints", <<>>, a.res, <<>>, a.called, <<>>,
                     FALSE, {}, {})

InitOpt ==
    /\ ProgramAt("open")
    /\ optD \in OptDescriptors
    /\ optCall = NoCall
    /\ version = 0
    /\ versionOut = NoVersion
    /\ devIn = NoDevIn
    /\ devOut = NoDevOut

\* the frame around an accessor call: nothing else changes
OptFrame ==
    /\ pc = "unit"
    /\ optD # NoOpt
    /\ UNCHANGED <<cliVars, progVars, optVars, acqVars, optD, version,
                   versionOut, devIn, devOut>>

OptGetString ==
    /\ OptFrame
    /\ \E st \in OptionStatus,
          wrote \in (IF optD.type = "STRING" THEN [1..optD.size -> Bytes]
                     ELSE {<<>>}) :
        optCall' = GetStringCall(optD, st, wrote)

\* the values a caller writes: texts without NUL, up to one byte too long
\* for the largest string option
TextValues == UNION {[1..n -> TextBytes] : n \in 0..MaxStrSize}

OptSetString ==
    /\ OptFrame
    /\ \E st \in OptionStatus, v \in TextValues, binfo \in SUBSET InfoFlags :
        optCall' = SetStringCall(optD, v, st, binfo)

OptGetInt ==
    /\ OptFrame
    /\ \E st \in OptionStatus, word \in Words :
        optCall' = GetIntCall(optD, st, word)

OptSetInt ==
    /\ OptFrame
    /\ \E st \in OptionStatus, v \in Words, binfo \in SUBSET InfoFlags :
        optCall' = SetIntCall(optD, v, st, binfo)

OptGetRange ==
    /\ OptFrame
    /\ optCall' = GetRangeCall(optD)

OptStringConstraints ==
    /\ OptFrame
    /\ optCall' = StringConstraintsCall(optD)

OptIntConstraints ==
    /\ OptFrame
    /\ optCall' = IntConstraintsCall(optD)

NextOpt ==
    \/ OptGetString
    \/ OptSetString
    \/ OptGetInt
    \/ OptSetInt
    \/ OptGetRange
    \/ OptStringConstraints
    \/ OptIntConstraints

SpecOpt == InitOpt /\ [][NextOpt]_vars

\* ---------------------------------------------------------------------
\* Version: the fields of a packed version code
\* ---------------------------------------------------------------------

\* code >> k on an i32: the arithmetic shift
Shr(code, k) == code \div (2 ^ k)
\* x & mask on an i32, for a mask of low one bits
BitAnd(x, mask) == x % (mask + 1)

\* faulty variant: the shifted code is not masked
SANE_VERSION_MAJOR_unmasked(code) == Shr(code, 24)

SANE_VERSION_MAJOR(code) == BitAnd(Shr(code, 24), 255)
SANE_VERSION_MINOR(code) == BitAnd(Shr(code, 16), 255)
SANE_VERSION_BUILD(code) == BitAnd(Shr(code, 0), 65535)

\* Version::major, Version::minor, Version::build on Version(v)
major(v) == SANE_VERSION_MAJOR(v)
minor(v) == SANE_VERSION_MINOR(v)
build(v) == SANE_VERSION_BUILD(v)

\* the i32 that holds the three fields: the top byte carries the sign
PackI32(ma, mi, b) ==
    (IF ma >= 128 THEN ma - 256 ELSE ma) * (2 ^ 24) + mi * (2 ^ 16) + b

\* version codes sane_init can store, the -1 that Context::init starts from
\* among them
VersionCodes ==
    {PackI32(ma, mi, b) : ma \in {0, 1, 127, 128, 255}, mi \in {0, 1, 255},
                          b \in {0, 1, 65535}}

InitVersion ==
    /\ ProgramAt("none")
    /\ optD = NoOpt
    /\ optCall = NoCall
    /\ version \in VersionCodes
    /\ versionOut = NoVersion
    /\ devIn = NoDevIn
    /\ devOut = NoDevOut

VersionFrame(f) ==
    /\ pc = "unit"
    /\ optD = NoOpt
    /\ devIn = NoDevIn
    /\ f \notin versionOut.called
    /\ UNCHANGED <<cliVars, progVars, optVars, acqVars, optD, optCall, version,
                   devIn, devOut>>

VersionMajor ==
    /\ VersionFrame("major")
    /\ versionOut' = [versionOut EXCEPT !.major = major(version),
                                        !.called = @ \cup {"major"}]

VersionMinor ==
    /\ VersionFrame("minor")
    /\ versionOut' = [versionOut EXCEPT !.minor = minor(version),
                                        !.called = @ \cup {"minor"}]

VersionBuild ==
    /\ VersionFrame("build")
    /\ versionOut' = [versionOut EXCEPT !.build = build(version),
                                        !.called = @ \cup {"build"}]

NextVersion ==
    \/ VersionMajor
    \/ VersionMinor
    \/ VersionBuild

SpecVersion == InitVersion /\ [][NextVersion]_vars

\* ---------------------------------------------------------------------
\* Context::devices: the null-terminated device list
\* ---------------------------------------------------------------------

DeviceEntries == {"null", "d1", "d2"}

\* arrays the backend can hand out: a null entry ends the list, what lies
\* behind it is never part of the list
DeviceLists ==
    {l \in UNION {[1..n -> DeviceEntries] : n \in 1..(MaxDevices + 2)} :
        \E k \in 1..Len(l) : l[k] = "null"}

\* faulty variant: the terminating entry is counted as a device
TravellerInclusive(list, n) ==
    (CHOOSE k \in 1..Len(list) :
        list[k] = "null" /\ \A j \in 1..(k - 1) : list[j] # "null")

\* devices: the traveller walks to the first null entry; num_devices, given
\* that n entries were passed already
RECURSIVE Traveller(_, _)
Traveller(list, n) ==
    IF list[n + 1] = "null" THEN n ELSE Traveller(list, n + 1)

\* ctx.devices(), the backend answering in.status and in.list
devices(in) ==
    IF checked(in.status) # Ok
    THEN [res |-> checked(in.status), items |-> <<>>]
    ELSE [res |-> Ok,
          items |-> [i \in 1..Traveller(in.list, 0) |-> in.list[i]]]

InitDevices ==
    /\ ProgramAt("none")
    /\ optD = NoOpt
    /\ optCall = NoCall
    /\ version = 0
    /\ versionOut = NoVersion
    /\ devIn \in [status : Status, list : DeviceLists]
    /\ devOut = NoDevOut

ContextDevices ==
    /\ pc = "unit"
    /\ devIn # NoDevIn
    /\ devOut = NoDevOut
    /\ devOut' = devices(devIn)
    /\ obs' = SaneGetDevices(obs)
    /\ UNCHANGED <<cliVars, pc, context, handle, acqs, startStatus, optVars,
                   acqVars, optD, optCall, version, versionOut, devIn>>

NextDevices == ContextDevices

SpecDevices == InitDevices /\ [][NextDevices]_vars

Next ==
    \/ ContextInit
    \/ OpenHandle
    \/ Descriptors
    \/ OptionNext
    \/ OptionsEnd
    \/ MainStart
    \/ GetImageParameters
    \/ ReadStep
    \/ MainUnwrapImage
    \/ SaveImage

Spec == Init /\ [][Next]_vars

NextApi ==
    \/ ApiStart
    \/ ApiRestart
    \/ ApiCancel
    \/ ApiGetImage
    \/ GetImageParameters
    \/ ReadStep
    \/ ApiReturn
    \/ ApiLeave

SpecApi == InitApi /\ [][NextApi]_vars
\* ------------------------------------------------------------------ claims
ChannelCount(format) == IF format = "GRAY" THEN 1 ELSE 3

\* C1: whenever the backend's start call returns a non-success status,
\* Handle::start creates no Acquisition, and no parameters query, no read and
\* no image follows for that attempt.
C1_StartFailureSurfaced ==
    startStatus \notin {"GOOD", "NONE"} =>
        /\ acqs = 0
        /\ pc \notin {"get_image", "read"}
        /\ image = NoImage

\* C2: a read status other than success or EOF ends the acquisition with an
\* error carrying exactly that status, with no further read and no image; a
\* read_image that completed normally ended on EOF, and a success status never
\* ends the loop.
C2_ReadErrorPropagates ==
    /\ lastRead.status \notin {"GOOD", "EOF", "NONE"} =>
        /\ pc # "read"
        /\ readImage = "Err"
        /\ result = Err(lastRead.status)
        /\ image = NoImage
    /\ readImage = "Ok" => lastRead.status = "EOF"
    /\ result.kind = "Err" /\ readImage = "Err" => result.status # "EOF"

C2_Witness ==
    /\ lastRead.status = "JAMMED"
    /\ sumRead > 0
    /\ result = Err("JAMMED")
    /\ pc = "done"

\* C3: a read of zero bytes with success status neither ends the loop nor
\* raises a failure: the loop is about to read again; and once EOF has
\* arrived the bytes collected (the part of the buffer passed over) are the
\* sum of the bytes all reads returned.
C3_EmptyReadContinues ==
    /\ lastRead = [status |-> "GOOD", len |-> 0] =>
        /\ pc = "read"
        /\ readImage = "running"
        /\ result = NoResult
    /\ lastRead.status = "EOF" => bytesize - remaining = sumRead

C3_Witness ==
    /\ readImage = "Ok"
    /\ image # NoImage
    /\ bytesize > 0
    /\ reads - 1 > bytesize

\* C4: read_image returns Ok only with the buffer filled exactly; when EOF
\* arrives after fewer bytes the acquisition fails (a panic) and get_image
\* returns no image; an image returned holds exactly the bytes read.
C4_ExactByteCount ==
    /\ readImage = "Ok" => remaining = 0 /\ sumRead = bytesize
    /\ lastRead.status = "EOF" /\ sumRead < bytesize =>
        /\ readImage = "Panic"
        /\ result = Panic
        /\ image = NoImage
    /\ image # NoImage => image.len = sumRead /\ result = Ok

C4_Witness ==
    /\ lastRead.status = "EOF"
    /\ sumRead > 0
    /\ sumRead < bytesize
    /\ result = Panic
    /\ pc = "returned"

\* C5 as stated: the byte count get_image allocates and has the read loop fill
\* is bytes_per_line * lines * (depth/8) * channel_count.
C5_BytesPerLineFormula ==
    readImage # "none" =>
        bytesize = params.bytes_per_line * params.lines
                   * (params.depth \div 8) * ChannelCount(params.format)

\* C5 amended: the byte count get_image allocates is pixels_per_line * lines *
\* (depth/8) * channel_count, with channel_count 1 for grayscale and 3 for
\* every other format, and a read_image that returns Ok has read that many
\* bytes.
C5_PixelsPerLineFormula ==
    /\ params # NoParams =>
        bytesize = params.pixels_per_line * params.lines
                   * (params.depth \div 8) * ChannelCount(params.format)
    /\ readImage = "Ok" =>
        sumRead = params.pixels_per_line * params.lines
                  * (params.depth \div 8) * ChannelCount(params.format)

C5_Witness ==
    /\ readImage = "Ok"
    /\ params.format = "RGB"
    /\ params.depth = 16
    /\ params.bytes_per_line # params.pixels_per_line
    /\ sumRead = 6 * params.pixels_per_line

\* C6: every acquisition issues a backend cancel when it ends, however it
\* ends: when no Acquisition is alive no start is left without a cancel after
\* it; and the cancel after a clean completion does not turn the image into
\* an error.
C6_CancelOnEveryEnd ==
    /\ acqs = 0 => ~obs.started /\ obs.active = 0
    /\ result.kind # "None" => acqs = 0 /\ obs.cancelled
    /\ image # NoImage => result = Ok

C6_Witness ==
    /\ readImage = "Panic"
    /\ result = Panic
    /\ pc = "returned"
    /\ obs.cancelled
    /\ ~obs.started

\* C7: after a successful init the backend exit is called exactly once on
\* every path on which main ends; it is never called without a successful
\* init, and no backend call follows it.
C7_ExitExactlyOnce ==
    /\ pc = "done" => obs.exits = (IF obs.inited THEN 1 ELSE 0)
    /\ obs.exits > 0 => pc = "done"
    /\ ~obs.exitNoInit
    /\ ~obs.afterExit
    /\ context => obs.inited /\ obs.exits = 0

C7_Witness ==
    /\ pc = "done"
    /\ obs.exits = 1
    /\ obs.closes = 1
    /\ readImage = "Err"

\* C8: no backend call is made on the handle after its close, close is called
\* exactly once for each handle opened, and an acquisition on the handle is
\* cancelled before the close.
C8_NoUseAfterClose ==
    /\ ~obs.afterClose
    /\ obs.closes <= obs.opens
    /\ pc = "done" => obs.closes = obs.opens
    /\ handle = "open" => obs.opens = 1 /\ obs.closes = 0
    /\ ~obs.closedActive
    /\ obs.closes > 0 => ~obs.started /\ acqs = 0

C8_Witness ==
    /\ pc = "done"
    /\ obs.closes = 1
    /\ obs.cancelled
    /\ result = Panic

\* C9: at every moment at most one acquisition is active on a device handle
\* (started and not yet cancelled), across any sequence of start, restart,
\* get_image and cancel.
C9_AtMostOneActive ==
    /\ acqs <= 1
    /\ obs.active <= 1

\* C10: Handle::options yields (value of option 0) - 1 options, with the
\* indices 1, 2, ... in increasing order, each with the descriptor the backend
\* returned for that index; index 0 is never yielded and no index at or above
\* the value of option 0 is queried.
C10_OptionsEnumeration ==
    /\ \A k \in 1..Len(yielded) : yielded[k] = <<k, k>>
    /\ numDesc > 0 => Len(yielded) <= numDesc - 1
    /\ pc = "options" =>
        /\ rangeNext = Len(yielded) + 1
        /\ rangeNext <= numDesc
        /\ ~(rangeNext < numDesc) => Len(yielded) = numDesc - 1

C10_Witness ==
    /\ pc = "options"
    /\ numDesc = MaxOptions
    /\ ~(rangeNext < numDesc)
    /\ Len(yielded) = MaxOptions - 1
\* the format/depth combinations an Image exists for
Supported(p) == p.format \in {"GRAY", "RGB"} /\ p.depth = 8

\* C17 as stated: for every format/depth combination other than gray 8 and
\* RGB 8, get_image ends with the unsupported-format failure.
C17_UnsupportedAlwaysReported ==
    result.kind # "None" /\ params # NoParams /\ ~Supported(params) =>
        result = Panic /\ readImage \in {"none", "Ok"}

\* C17 amended: get_image returns an image only for gray 8 (Gray8) and RGB 8
\* (Rgb8); for every other combination it returns none and panics with the
\* unsupported-format message, right after the parameters for a format that
\* is neither gray nor RGB and after a completed read loop for another depth;
\* a read error or a byte-count mismatch that comes first ends it instead.
C17_ImageOnlyIfSupported ==
    /\ image # NoImage =>
        /\ Supported(params)
        /\ image.kind = (IF params.format = "GRAY" THEN "Gray8" ELSE "Rgb8")
    /\ result = Ok => image # NoImage
    /\ params # NoParams /\ params.format \notin {"GRAY", "RGB"} =>
        result = Panic /\ readImage = "none" /\ reads = 0
    /\ readImage = "Ok" /\ ~Supported(params) => result = Panic
    /\ result.kind # "None" /\ params # NoParams /\ ~Supported(params) =>
        \/ result = Panic
        \/ result.kind = "Err" /\ readImage = "Err"

C17_Witness ==
    /\ readImage = "Ok"
    /\ params.format = "GRAY"
    /\ params.depth = 16
    /\ sumRead = bytesize
    /\ result = Panic
    /\ image = NoImage

\* C20: the read loop stops as soon as the expected byte count has been
\* collected: with the buffer full it issues no further read.
C20_StopsWhenFull ==
    [][pc = "read" /\ bytesize > 0 /\ sumRead = bytesize => reads' = reads]_vars

\* C11: get_string, set_string, get_int or set_int on an option whose type or
\* byte size does not match the accessor returns Error::WrongType and makes
\* no backend control call.
C11_MismatchIsWrongType ==
    /\ optCall.fn \in {"get_string", "set_string"} /\ optD.type # "STRING" =>
        optCall.res = WrongType /\ ~optCall.called
    /\ /\ optCall.fn \in {"get_int", "set_int"}
       /\ ~(optD.type \in {"INT", "FIXED"} /\ optD.size = IntSize)
       => optCall.res = WrongType /\ ~optCall.called

\* the bytes of buf before its first NUL (all of them when it holds none)
IsPrefixToNul(v, buf) ==
    /\ Len(v) <= Len(buf)
    /\ \A k \in 1..Len(v) : v[k] = buf[k] /\ v[k] # 0
    /\ Len(v) < Len(buf) => buf[Len(v) + 1] = 0

\* C12: for every content of the size-byte buffer, get_string
\* returns a value of length at most size - 1, without NUL, equal to the
\* bytes before the first NUL.
C12_AtMostSizeMinusOne ==
    optCall.fn = "get_string" /\ optCall.called /\ optCall.res.kind # "Err" =>
        /\ optCall.res = Ok
        /\ Len(optCall.value) <= optD.size - 1
        /\ IsPrefixToNul(optCall.value, optCall.arg)

\* C13: set_string with a value whose bytes plus the NUL exceed
\* descriptor.size is rejected with an error, and no backend control call is
\* made for it.
C13_OverlongRejected ==
    /\ optCall.fn = "set_string"
    /\ optD.type = "STRING"
    /\ Len(optCall.arg) + 1 > optD.size
    => optCall.res.kind = "Err" /\ ~optCall.called

\* C14: get_range on an option whose constraint kind is not range returns
\* Error::WrongType without reading the constraint payload or calling the
\* backend; on a range-constrained option it returns the descriptor's min,
\* max and quantization step.
C14_RangeOnlyForRange ==
    optCall.fn = "get_range" =>
        /\ ~optCall.called
        /\ optD.constraint # "RANGE" =>
            /\ optCall.res = WrongType
            /\ ~optCall.payloadRead
        /\ optD.constraint = "RANGE" =>
            /\ optCall.res = Ok
            /\ optCall.value.min = optD.payload.range.min
            /\ optCall.value.max = optD.payload.range.max
            /\ optCall.value.quant = optD.payload.range.quant

C14_Witness ==
    /\ optCall.fn = "get_range"
    /\ optD.constraint = "WORD_LIST"
    /\ optD.payload.word_list = <<2, 75, 300>>
    /\ optCall.res = WrongType

\* C15: string_constraints on an option whose constraint kind is not
\* string-list, and int_constraints on one whose kind is not integer-list,
\* return Error::WrongType, and the constraint payload is not read.
C15_ConstraintMismatchIsWrongType ==
    /\ optCall.fn = "string_constraints" /\ optD.constraint # "STRING_LIST" =>
        optCall.res = WrongType /\ ~optCall.payloadRead
    /\ optCall.fn = "int_constraints" /\ optD.constraint # "WORD_LIST" =>
        optCall.res = WrongType /\ ~optCall.payloadRead

\* C16: every successful set_string and set_int returns to its caller the
\* info flags the backend reported for the write.
C16_InfoFlagsReturned ==
    optCall.fn \in {"set_string", "set_int"} /\ optCall.res = Ok =>
        optCall.info = optCall.backendInfo

\* bit i of the i32 code, bit 31 being the sign
BitOf(code, i) == IF i = 31 THEN (IF code < 0 THEN 1 ELSE 0)
                  ELSE (code \div (2 ^ i)) % 2

RECURSIVE BitsValue(_, _, _)
\* the number spelled by bits hi..lo of code
BitsValue(code, hi, lo) ==
    IF hi < lo THEN 0
    ELSE BitOf(code, hi) * (2 ^ (hi - lo)) + BitsValue(code, hi - 1, lo)

\* C18: for every 32-bit version code, major, minor and build are bits
\* 31..24, 23..16 and 15..0 of the code, and packing the three fields back
\* gives the code again, codes with the top bit set included.
C18_VersionFields ==
    /\ "major" \in versionOut.called =>
        versionOut.major = BitsValue(version, 31, 24)
    /\ "minor" \in versionOut.called =>
        versionOut.minor = BitsValue(version, 23, 16)
    /\ "build" \in versionOut.called =>
        versionOut.build = BitsValue(version, 15, 0)
    /\ versionOut.called = {"major", "minor", "build"} =>
        PackI32(versionOut.major, versionOut.minor, versionOut.build) = version

C18_Witness ==
    /\ versionOut.called = {"major", "minor", "build"}
    /\ version < 0
    /\ versionOut.major = 255
    /\ versionOut.minor = 1
    /\ versionOut.build = 65535

\* C19: Context::devices yields exactly the entries before the terminating
\* null entry of the backend's list, in order and once each, an empty
\* sequence and no error for 0 devices, and an error exactly when the
\* enumeration call reports a status other than success.
C19_DevicesBeforeNull ==
    devOut # NoDevOut =>
        /\ devOut.res.kind = "Err" <=> devIn.status # "GOOD"
        /\ devIn.status # "GOOD" => devOut.res = Err(devIn.status)
        /\ devIn.status = "GOOD" =>
            /\ devOut.res = Ok
            /\ Len(devOut.items) < Len(devIn.list)
            /\ \A k \in 1..Len(devOut.items) :
                devOut.items[k] = devIn.list[k] /\ devOut.items[k] # "null"
            /\ devIn.list[Len(devOut.items) + 1] = "null"

C19_Witness ==
    /\ devIn.status = "GOOD"
    /\ devIn.list = <<"null", "d1">>
    /\ devOut.res = Ok
    /\ devOut.items = <<>>

\* C21: in every acquisition the parameters are queried after that
\* acquisition's start and before its first read, and the buffer size and
\* the image dimensions are those of that query, never of a query made
\* before the start or in an earlier acquisition.
C21_ParametersAfterStart ==
    /\ ~obs.staleRead
    /\ ~obs.lateQuery
    /\ pc = "get_image" => obs.geometry = NoParams /\ ~obs.readSinceStart
    /\ pc = "read" =>
        /\ obs.geometry # NoParams
        /\ bytesize = obs.geometry.pixels_per_line
                        * (obs.geometry.depth \div Depth8) * obs.geometry.lines
                        * ChannelCount(obs.geometry.format)
        /\ reads = 0 => remaining = bytesize
    /\ image # NoImage =>
        /\ image.width = obs.geometry.pixels_per_line
        /\ image.height = obs.geometry.lines
        /\ image.len = obs.geometry.pixels_per_line * obs.geometry.lines
                         * ChannelCount(obs.geometry.format)

C21_Witness ==
    /\ dir
    /\ obs.cancelled
    /\ pc = "read"
    /\ reads > 0
    /\ obs.geometry.pixels_per_line = 2
    /\ obs.geometry.format = "RGB"
    /\ bytesize = 6

\* C22: at every iteration of the read loop the capacity offered to the
\* backend is the expected byte count minus the bytes already transferred
\* and the bytes are placed directly after those of the reads before; with
\* reads that return at most the offered capacity the total never exceeds
\* the expected byte count and no earlier byte is overwritten.
C22_CapacityIsWhatIsLeft ==
    /\ sumRead <= bytesize
    /\ reads > 0 =>
        /\ offered.max_len = bytesize - (sumRead - lastRead.len)
        /\ offered.ptr = sumRead - lastRead.len
        /\ offered.ptr + lastRead.len <= bytesize
    /\ pc = "read" => remaining = bytesize - sumRead

C22_Witness ==
    /\ reads > 1
    /\ offered.ptr > 0
    /\ lastRead.len > 0
    /\ sumRead = bytesize
    /\ bytesize = 6
====
